---- MODULE Spec2Model ----
(***************************************************************************)
(* Model of src/features/modals/NodeModal/index.tsx: the node edit modal   *)
(* of the JSON graph viewer.  The pure helpers (parsePrimitive,            *)
(* setValueAtPath) are operators over a model of JavaScript values; the    *)
(* component (NodeModal) is a state machine over its React state, the      *)
(* selection store (useGraph) and the document store (useJson).            *)
(***************************************************************************)
EXTENDS Integers, Sequences, FiniteSets, TLC

VARIABLES
    selectedNode,  \* useGraph state.selectedNode: a NodeData or NoNode
    isEditing,     \* useState(false)
    form,          \* useState<Record<string,string>>({}): key |-> text
    json,          \* useJson text: the serialized document
    effectDue,     \* the useEffect of lines 84-103 has a changed dependency and has not run yet
    hasUpdater,    \* whether the selection store has one of the updater methods of line 129
    count,         \* how many saves, keystrokes and outside document writes have happened
    lastOp,        \* history: the handler that ran last
    saveLog,       \* history: what the last handleSave read and did
    args,          \* inputs of a call of a pure helper
    ret            \* its result

vars == <<selectedNode, isEditing, form, json, effectDue, hasUpdater, count, lastOp, saveLog, args, ret>>

(***************************************************************************)
(* Bounds of the model.                                                    *)
(***************************************************************************)
MaxTextLen == 3      \* longest enumerated input text of parsePrimitive
MaxDepth == 2        \* nesting depth of the enumerated roots of setValueAtPath
MaxPathLen == 3      \* longest enumerated path of setValueAtPath
MaxSaves == 2        \* handleSave calls in one run of the session
MaxKeystrokes == 1   \* handleChange calls in one run of the session
MaxDocChanges == 1   \* writes to the document store from outside the modal

(***************************************************************************)
(* Text.  A JavaScript string is a sequence of one-character strings, so   *)
(* that Number(v) and String(n) can be computed character by character.    *)
(***************************************************************************)
Digits == <<"0", "1", "2", "3", "4", "5", "6", "7", "8", "9">>
DigitSet == {Digits[i] : i \in 1..10}
DigitVal(c) == (CHOOSE i \in 1..10 : Digits[i] = c) - 1

T_true == <<"t", "r", "u", "e">>
T_false == <<"f", "a", "l", "s", "e">>
T_null == <<"n", "u", "l", "l">>
T_Infinity == <<"I", "n", "f", "i", "n", "i", "t", "y">>
T_NaN == <<"N", "a", "N">>

RECURSIVE TextsUpTo(_, _)
TextsUpTo(chars, n) ==
    IF n = 0 THEN {<<>>}
    ELSE LET shorter == TextsUpTo(chars, n - 1)
         IN  shorter \cup {Append(t, c) : t \in shorter, c \in chars}

RECURSIVE ToNat(_)
ToNat(ds) == IF ds = <<>> THEN 0
             ELSE 10 * ToNat(SubSeq(ds, 1, Len(ds) - 1)) + DigitVal(ds[Len(ds)])

RECURSIVE NatText(_)
NatText(n) == IF n < 10 THEN <<Digits[n + 1]>>
              ELSE Append(NatText(n \div 10), Digits[(n % 10) + 1])

RECURSIVE Zeros(_)
Zeros(n) == IF n <= 0 THEN <<>> ELSE <<"0">> \o Zeros(n - 1)

AllDigits(s) == \A i \in 1..Len(s) : s[i] \in DigitSet
FirstIn(s, cs) == IF \E i \in 1..Len(s) : s[i] \in cs
                  THEN CHOOSE i \in 1..Len(s) : s[i] \in cs /\ \A j \in 1..(i - 1) : s[j] \notin cs
                  ELSE 0
WhiteSpace == {" "}
RECURSIVE TrimLeft(_)
TrimLeft(s) == IF s # <<>> /\ Head(s) \in WhiteSpace THEN TrimLeft(Tail(s)) ELSE s
RECURSIVE TrimRight(_)
TrimRight(s) == IF s # <<>> /\ s[Len(s)] \in WhiteSpace
                THEN TrimRight(SubSeq(s, 1, Len(s) - 1)) ELSE s
Trim(s) == TrimRight(TrimLeft(s))

(***************************************************************************)
(* Numbers.  A JavaScript number is NaN, an infinity, or sign * m * 10^e   *)
(* with m not divisible by 10 (m = 0, e = 0 for zero).  The inputs of the  *)
(* model are short decimal texts, which a double holds to full precision   *)
(* and well inside its range, so the decimal value is exact.               *)
(***************************************************************************)
NaN == [k |-> "nan"]
Inf(neg) == [k |-> "inf", neg |-> neg]
RECURSIVE Norm(_, _, _)
Norm(neg, m, e) == IF m = 0 THEN [k |-> "fin", neg |-> neg, m |-> 0, e |-> 0]
                   ELSE IF m % 10 = 0 THEN Norm(neg, m \div 10, e + 1)
                   ELSE [k |-> "fin", neg |-> neg, m |-> m, e |-> e]

\* StrUnsignedDecimalLiteral without the sign: digits [. digits] [e [+-] digits]
ExpValue(ep) ==
    LET signed == ep # <<>> /\ Head(ep) \in {"+", "-"}
        ds == IF signed THEN Tail(ep) ELSE ep
    IN  IF ds = <<>> \/ ~AllDigits(ds) THEN NaN
        ELSE [k |-> "exp", v |-> IF signed /\ Head(ep) = "-" THEN 0 - ToNat(ds) ELSE ToNat(ds)]

UnsignedDecimal(neg, s) ==
    LET ePos == FirstIn(s, {"e", "E"})
        mp == IF ePos = 0 THEN s ELSE SubSeq(s, 1, ePos - 1)
        ex == IF ePos = 0 THEN [k |-> "exp", v |-> 0] ELSE ExpValue(SubSeq(s, ePos + 1, Len(s)))
        dot == FirstIn(mp, {"."})
        ip == IF dot = 0 THEN mp ELSE SubSeq(mp, 1, dot - 1)
        fp == IF dot = 0 THEN <<>> ELSE SubSeq(mp, dot + 1, Len(mp))
    IN  IF ex.k = "nan" \/ ~AllDigits(ip) \/ ~AllDigits(fp) \/ (ip = <<>> /\ fp = <<>>)
        THEN NaN
        ELSE Norm(neg, ToNat(ip \o fp), ex.v - Len(fp))

\* Number(v) of a string (StringToNumber): white space trimmed, the empty
\* string is 0, an optional sign, Infinity or a decimal literal, else NaN.
\* (Hexadecimal, octal and binary literals never render back to themselves.)
Number(v) ==
    LET s == Trim(v)
        signed == s # <<>> /\ Head(s) \in {"+", "-"}
        neg == signed /\ Head(s) = "-"
        body == IF signed THEN Tail(s) ELSE s
    IN  IF s = <<>> THEN Norm(FALSE, 0, 0)
        ELSE IF body = T_Infinity THEN Inf(neg)
        ELSE UnsignedDecimal(neg, body)

\* String(n) of a number (Number::toString, radix 10): with the k digits of m
\* and n = k + e, plain digits for 0 < n <= 21, "0.000ddd" for -6 < n <= 0,
\* otherwise exponent notation.
NumberToString(x) ==
    IF x.k = "nan" THEN T_NaN
    ELSE IF x.k = "inf" THEN (IF x.neg THEN <<"-">> ELSE <<>>) \o T_Infinity
    ELSE IF x.m = 0 THEN <<"0">>
    ELSE LET ds == NatText(x.m)
             k == Len(ds)
             n == k + x.e
             sign == IF x.neg THEN <<"-">> ELSE <<>>
             ex == IF n - 1 < 0 THEN <<"-">> \o NatText(1 - n) ELSE <<"+">> \o NatText(n - 1)
         IN  sign \o
             (IF k <= n /\ n <= 21 THEN ds \o Zeros(n - k)
              ELSE IF 0 < n /\ n <= 21 THEN SubSeq(ds, 1, n) \o <<".">> \o SubSeq(ds, n + 1, k)
              ELSE IF -6 < n /\ n <= 0 THEN <<"0", ".">> \o Zeros(0 - n) \o ds
              ELSE IF k = 1 THEN ds \o <<"e">> \o ex
              ELSE <<ds[1], ".">> \o SubSeq(ds, 2, k) \o <<"e">> \o ex)

(***************************************************************************)
(* JavaScript values.  A number is held by its String() rendering, which   *)
(* names it uniquely (-0 renders as 0, as it does in JSON text).           *)
(***************************************************************************)
Null == [t |-> "null"]
Undef == [t |-> "undefined"]
Bool(b) == [t |-> "boolean", b |-> b]
Num(txt) == [t |-> "number", s |-> txt]
Str(txt) == [t |-> "string", s |-> txt]
Obj(f) == [t |-> "object", f |-> f]
Arr(e, p) == [t |-> "array", e |-> e, p |-> p]
Throw == [t |-> "throw"]

NoProps == [k \in {} |-> Undef]
EmptyObj == Obj(NoProps)
EmptyArr == Arr(<<>>, NoProps)
IsNullish(v) == v.t \in {"null", "undefined"}
IsScalar(v) == v.t \in {"null", "boolean", "number", "string"}
IsContainer(v) == v.t \in {"object", "array"}
\* typeof v === "object"
TypeofObject(v) == v.t \in {"object", "array", "null"}

\* String(v) of a scalar
ToText(v) == CASE v.t = "string" -> v.s
               [] v.t = "number" -> v.s
               [] v.t = "boolean" -> (IF v.b THEN T_true ELSE T_false)
               [] v.t = "null" -> T_null
               [] OTHER -> <<"u", "n", "d", "e", "f", "i", "n", "e", "d">>

(***************************************************************************)
(* parsePrimitive, lines 10-18.                                            *)
(***************************************************************************)
parsePrimitive(v) ==
    IF v = T_true THEN Bool(TRUE)
    ELSE IF v = T_false THEN Bool(FALSE)
    ELSE IF v = T_null THEN Null
    ELSE IF v = <<>> THEN Str(<<>>)
    ELSE LET n == Number(v)
         IN  IF n.k # "nan" /\ NumberToString(n) = v THEN Num(NumberToString(n)) ELSE Str(v)

(***************************************************************************)
(* Property access.  A path segment is an array index [i |-> n] or an      *)
(* object key [s |-> "k"].                                                 *)
(***************************************************************************)
Idx(n) == [i |-> n]
Key(k) == [s |-> k]
IsIndex(seg) == DOMAIN seg = {"i"}
\* typeof nextSeg === "number" ? [] : {}
NewContainer(nextSeg) == IF IsIndex(nextSeg) THEN EmptyArr ELSE EmptyObj

\* the property name an index stands for (ToPropertyKey), and back
PropName(seg) == IF IsIndex(seg) THEN Digits[seg.i + 1] ELSE seg.s
ArrayIndex(seg) == IF IsIndex(seg) THEN seg.i
                   ELSE IF seg.s \in DigitSet THEN DigitVal(seg.s) ELSE 0 - 1

RECURSIVE Holes(_)
Holes(n) == IF n <= 0 THEN <<>> ELSE <<Undef>> \o Holes(n - 1)

\* v[seg], for v neither null nor undefined
GetProp(v, seg) ==
    CASE v.t = "object" ->
            IF PropName(seg) \in DOMAIN v.f THEN v.f[PropName(seg)] ELSE Undef
      [] v.t = "array" ->
            LET i == ArrayIndex(seg)
            IN  IF i >= 0 THEN (IF i < Len(v.e) THEN v.e[i + 1] ELSE Undef)
                ELSE IF seg.s \in DOMAIN v.p THEN v.p[seg.s] ELSE Undef
      [] v.t = "string" ->
            LET i == ArrayIndex(seg)
            IN  IF i >= 0 /\ i < Len(v.s) THEN Str(<<v.s[i + 1]>>) ELSE Undef
      [] OTHER -> Undef

\* v[seg] = x in strict mode (the file is an ES module): the value v holds
\* afterwards, or Throw (a TypeError) when v is a primitive, null or undefined.
\* An index past the end of an array leaves holes before it.
SetProp(v, seg, x) ==
    CASE v.t = "object" ->
            Obj([k \in DOMAIN v.f \cup {PropName(seg)} |->
                    IF k = PropName(seg) THEN x ELSE v.f[k]])
      [] v.t = "array" ->
            LET i == ArrayIndex(seg)
            IN  IF i >= 0
                THEN IF i < Len(v.e) THEN Arr([v.e EXCEPT ![i + 1] = x], v.p)
                     ELSE Arr(v.e \o Holes(i - Len(v.e)) \o <<x>>, v.p)
                ELSE Arr(v.e, [k \in DOMAIN v.p \cup {seg.s} |->
                                  IF k = seg.s THEN x ELSE v.p[k]])
      [] OTHER -> Throw

\* the value at a path below v, undefined where there is none
RECURSIVE GetAt(_, _)
GetAt(v, path) ==
    IF path = <<>> THEN v
    ELSE IF IsNullish(v) THEN Undef
    ELSE GetAt(GetProp(v, Head(path)), Tail(path))

\* v with (the value at path `at`)[seg] = x; Throw when that assignment throws
RECURSIVE SetAt(_, _, _, _)
SetAt(v, at, seg, x) ==
    IF at = <<>> THEN SetProp(v, seg, x)
    ELSE LET inner == SetAt(GetProp(v, Head(at)), Tail(at), seg, x)
         IN  IF inner = Throw THEN Throw ELSE SetProp(v, Head(at), inner)

(***************************************************************************)
(* setValueAtPath, lines 24-54.  `cur` is a reference: either into obj, at *)
(* the path `at`, or into the array that line 36 made, which nothing       *)
(* refers to but cur (det).                                                *)
(***************************************************************************)
WalkStart(obj) == [obj |-> obj, det |-> Undef, isDet |-> FALSE, at |-> <<>>, thrown |-> FALSE]
CurRoot(w) == IF w.isDet THEN w.det ELSE w.obj
Cur(w) == GetAt(CurRoot(w), w.at)

\* cur[seg] = x, where `new` is what the root that cur refers into becomes
Assigned(w, new) ==
    IF new = Throw THEN [w EXCEPT !.thrown = TRUE]
    ELSE IF w.isDet THEN [w EXCEPT !.det = new]
    ELSE [w EXCEPT !.obj = new]
Assign(w, seg, x) == Assigned(w, SetAt(CurRoot(w), w.at, seg, x))

\* cur = cur[seg]
Descend(w, seg) == [w EXCEPT !.at = Append(@, seg)]

\* lines 34-37: a cur that is no array is replaced by a fresh array
CoerceToArray(w, cur) ==
    IF cur.t # "array" THEN [w EXCEPT !.isDet = TRUE, !.det = EmptyArr, !.at = <<>>] ELSE w

\* lines 38-42, with cur an array and c = cur[seg]
IndexStep(w, c, seg, nextSeg) ==
    Descend(IF IsNullish(c) THEN Assign(w, seg, NewContainer(nextSeg)) ELSE w, seg)

\* lines 44-47, with c = cur[seg]
KeyStep(w, c, seg, nextSeg) ==
    IF IsNullish(c) \/ ~TypeofObject(c)
    THEN Descend(Assign(w, seg, NewContainer(nextSeg)), seg)
    ELSE Descend(w, seg)

IndexBranch(w, seg, nextSeg) == IndexStep(w, GetProp(Cur(w), seg), seg, nextSeg)
KeyBranch(w, cur, seg, nextSeg) ==
    IF IsNullish(cur) THEN [w EXCEPT !.thrown = TRUE]
    ELSE KeyStep(w, GetProp(cur, seg), seg, nextSeg)

\* one iteration of the loop of lines 30-49
WalkStep(w, seg, nextSeg) ==
    IF IsIndex(seg)
    THEN IndexBranch(CoerceToArray(w, Cur(w)), seg, nextSeg)
    ELSE KeyBranch(w, Cur(w), seg, nextSeg)

RECURSIVE Walk(_, _, _)
Walk(w, path, i) ==
    IF w.thrown \/ i > Len(path) - 1 THEN w
    ELSE Walk(WalkStep(w, path[i], path[i + 1]), path, i + 1)

\* lines 51-53
Returned(w) == IF w.thrown THEN Throw ELSE w.obj
AssignLast(w, last, replacement) ==
    IF w.thrown THEN Throw ELSE Returned(Assign(w, last, replacement))

\* a mutant: the walk starts from a fresh object instead of obj
setValueAtPath_fresh(obj, path, replacement) ==
    IF path = <<>> THEN replacement
    ELSE AssignLast(Walk(WalkStart(EmptyObj), path, 1), path[Len(path)], replacement)

\* the value returned, or Throw
setValueAtPath(obj, path, replacement) ==
    IF path = <<>> THEN replacement
    ELSE AssignLast(Walk(WalkStart(obj), path, 1), path[Len(path)], replacement)

(***************************************************************************)
(* JSON.stringify followed by JSON.parse: the value a text written with    *)
(* JSON.stringify(v, null, 2) stands for.  Holes and undefined elements of *)
(* an array and non-finite numbers come out as null, undefined fields and  *)
(* the non-index properties of an array are left out.                      *)
(***************************************************************************)
IsFiniteNum(v) == v.s \notin {T_NaN, T_Infinity, <<"-">> \o T_Infinity}
RECURSIVE Jsonify(_)
Jsonify(v) ==
    CASE v.t = "object" ->
            Obj([k \in {j \in DOMAIN v.f : v.f[j].t # "undefined"} |-> Jsonify(v.f[k])])
      [] v.t = "array" ->
            Arr([i \in 1..Len(v.e) |->
                    IF v.e[i].t = "undefined" THEN Null ELSE Jsonify(v.e[i])], NoProps)
      [] v.t = "number" -> IF IsFiniteNum(v) THEN v ELSE Null
      [] OTHER -> v

(***************************************************************************)
(* The pure helpers on enumerated inputs.                                  *)
(***************************************************************************)
NoNode == [t |-> "none"]
NoForm == [k \in {} |-> <<>>]
NoSave == [outcome |-> "none"]
NoCall == [fn |-> "none"]
Pending == [t |-> "pending"]
EmptyText == [k |-> "empty"]

\* the component as mounted: nothing selected, view mode, an empty form
Mounted ==
    /\ selectedNode = NoNode
    /\ isEditing = FALSE
    /\ form = NoForm
    /\ effectDue = FALSE
    /\ count = [saves |-> 0, keystrokes |-> 0, docChanges |-> 0]
    /\ lastOp = "mount"
    /\ saveLog = NoSave

SessionIdle ==
    /\ Mounted
    /\ json = EmptyText
    /\ hasUpdater = FALSE

SessionVars == <<selectedNode, isEditing, form, json, effectDue, hasUpdater, count, lastOp, saveLog>>

CoerceChars == {"0", "1", "7", ".", "-", "e", "a", " "}
CoerceWords == {T_true, T_false, T_null, T_NaN, T_Infinity, <<"-">> \o T_Infinity,
                <<"3", ".", "1", "4">>, <<"1", "e", "2", "1">>, <<"1", "e", "+", "2", "1">>,
                <<"a", "b", "c">>, <<"4", "2">>, <<"T", "r", "u", "e">>}
CoerceTexts == TextsUpTo(CoerceChars, MaxTextLen) \cup CoerceWords

InitCoerce ==
    /\ SessionIdle
    /\ args \in {[fn |-> "parsePrimitive", v |-> t] : t \in CoerceTexts}
    /\ ret = Pending

CallCoerce ==
    /\ args.fn = "parsePrimitive"
    /\ ret = Pending
    /\ ret' = parsePrimitive(args.v)
    /\ UNCHANGED <<args, SessionVars>>

NextCoerce == CallCoerce
SpecCoerce == InitCoerce /\ [][NextCoerce]_vars

RootScalars == {Null, Num(<<"1">>)}
RootKeys == {"a", "b"}
MaxArrLen == 2
FunctionsOver(keys, vals) == UNION {[ks -> vals] : ks \in SUBSET keys}
SeqsUpTo(vals, n) == UNION {[1..m -> vals] : m \in 0..n}
RECURSIVE JsonValues(_)
JsonValues(d) ==
    IF d = 0 THEN RootScalars
    ELSE LET below == JsonValues(d - 1)
         IN  below \cup {Obj(f) : f \in FunctionsOver(RootKeys, below)}
                   \cup {Arr(e, NoProps) : e \in SeqsUpTo(below, MaxArrLen)}

Segments == {Key(k) : k \in RootKeys} \cup {Idx(i) : i \in 0..1}
Paths == SeqsUpTo(Segments, MaxPathLen)
Replacements == {Num(<<"7">>), EmptyObj}

InitInstall ==
    /\ SessionIdle
    /\ args \in {[fn |-> "setValueAtPath", obj |-> o, path |-> p, replacement |-> r] :
                    o \in JsonValues(MaxDepth), p \in Paths, r \in Replacements}
    /\ ret = Pending

CallInstall ==
    /\ args.fn = "setValueAtPath"
    /\ ret = Pending
    /\ ret' = setValueAtPath(args.obj, args.path, args.replacement)
    /\ UNCHANGED <<args, SessionVars>>

NextInstall == CallInstall
SpecInstall == InitInstall /\ [][NextInstall]_vars

Installed == args.fn = "setValueAtPath" /\ ret # Pending

\* C1: reading the root that setValueAtPath returns at the path gives the
\* replacement, for every root, path and replacement (the edit is never lost).
C1_ReadBackYieldsReplacement ==
    (Installed /\ ret # Throw) => GetAt(ret, args.path) = args.replacement

\* C2: in the root returned, every intermediate container along the path is
\* an array when the next segment is an index and an object when it is a key.
C2_ContainerKindFollowsNextSegment ==
    (Installed /\ args.path # <<>> /\ ret # Throw) =>
        \A i \in 1..(Len(args.path) - 1) :
           GetAt(ret, SubSeq(args.path, 1, i)).t =
               (IF IsIndex(args.path[i + 1]) THEN "array" ELSE "object")

(***************************************************************************)
(* The selection store's NodeData: rows (text) and a path.  A row is       *)
(* [key, value, type]; key is NoKey (null) or AKey(k).                     *)
(***************************************************************************)
NoKey == [t |-> "null"]
AKey(k) == [t |-> "key", k |-> k]
\* r.key is truthy: neither null nor the empty string
KeyTruthy(key) == key.t = "key" /\ key.k # ""
Row(key, value, type) == [key |-> key, value |-> value, type |-> type]
Node(text, path) == [text |-> text, path |-> path]
IsContainerRow(r) == r.type \in {"array", "object"}

\* String(v ?? "")
StringOrEmpty(v) == IF IsNullish(v) THEN <<>> ELSE ToText(v)

\* the graph's rows of a document value: one row per field of an object,
\* one keyless row for a scalar
RECURSIVE SetToSeq(_)
SetToSeq(S) == IF S = {} THEN <<>>
               ELSE LET x == CHOOSE y \in S : TRUE IN <<x>> \o SetToSeq(S \ {x})
RowsOf(v) ==
    IF v.t = "object"
    THEN LET ks == SetToSeq(DOMAIN v.f)
         IN  [i \in 1..Len(ks) |->
                 Row(AKey(ks[i]), IF IsContainer(v.f[ks[i]]) THEN Undef ELSE v.f[ks[i]],
                     v.f[ks[i]].t)]
    ELSE <<Row(NoKey, v, v.t)>>

RECURSIVE PathsIn(_)
PathsIn(v) ==
    {<<>>} \cup
    (CASE v.t = "object" ->
            UNION {{<<Key(k)>> \o p : p \in PathsIn(v.f[k])} : k \in DOMAIN v.f}
       [] v.t = "array" ->
            UNION {{<<Idx(i - 1)>> \o p : p \in PathsIn(v.e[i])} : i \in 1..Len(v.e)}
       [] OTHER -> {})

\* the nodes the graph of a document offers: its objects, and the scalars
\* that are the root or an element of an array
NodesOf(v) ==
    {Node(RowsOf(GetAt(v, p)), p) :
        p \in {q \in PathsIn(v) :
                 \/ GetAt(v, q).t = "object"
                 \/ /\ IsScalar(GetAt(v, q))
                    /\ (q = <<>> \/ IsIndex(q[Len(q)]))}}

(***************************************************************************)
(* The document store's text: empty, not JSON, or the text of a value.     *)
(***************************************************************************)
InvalidText == [k |-> "invalid"]
JsonText(v) == [k |-> "json", v |-> v]
IsValid(text) == text.k = "json"

\* a mutant: text that does not parse is read as an empty object
ParseRaw_lenient(raw) ==
    IF raw.k = "json" THEN raw.v ELSE EmptyObj

\* line 137: raw ? JSON.parse(raw) : {}
ParseRaw(raw) ==
    IF raw.k = "empty" THEN EmptyObj
    ELSE IF raw.k = "invalid" THEN Throw
    ELSE raw.v

(***************************************************************************)
(* NodeModal.                                                              *)
(***************************************************************************)
IsBareNode(node) == Len(node.text) = 1 /\ ~KeyTruthy(node.text[1].key)

\* a mutant: the rows of nested objects and arrays get a field too
PopulateForm_allRows(node) ==
    IF IsBareNode(node)
    THEN [k \in {""} |-> StringOrEmpty(node.text[1].value)]
    ELSE LET rows == {i \in 1..Len(node.text) : KeyTruthy(node.text[i].key)}
         IN  [k \in {node.text[i].key.k : i \in rows} |->
                 StringOrEmpty((CHOOSE r \in {node.text[i] : i \in rows} : r.key.k = k).value)]

\* lines 90-102
PopulateForm(node) ==
    IF IsBareNode(node)
    THEN [k \in {""} |-> StringOrEmpty(node.text[1].value)]
    ELSE LET rows == {i \in 1..Len(node.text) :
                         ~IsContainerRow(node.text[i]) /\ KeyTruthy(node.text[i].key)}
         IN  [k \in {node.text[i].key.k : i \in rows} |->
                 StringOrEmpty((CHOOSE r \in {node.text[i] : i \in rows} : r.key.k = k).value)]

\* a mutant: the effect clears the form whatever the mode
EffectForm_reset(editing, node) == NoForm

\* lines 84-103, the state the effect sets the form to
EffectForm(editing, node) ==
    IF ~editing \/ node = NoNode THEN NoForm ELSE PopulateForm(node)

\* lines 116-125
NewRows(node, frm) ==
    [i \in 1..Len(node.text) |->
        LET r == node.text[i]
        IN  IF ~IsContainerRow(r) /\ KeyTruthy(r.key) /\ r.key.k \in DOMAIN frm
            THEN [r EXCEPT !.value = Str(frm[r.key.k])]
            ELSE IF r.key.t = "null" /\ "" \in DOMAIN frm
            THEN [r EXCEPT !.value = Str(frm[""])]
            ELSE r]

\* lines 140-151
Replacement(node, frm) ==
    IF Len(node.text) = 1 /\ node.text[1].key.t = "null"
    THEN parsePrimitive(IF "" \in DOMAIN frm THEN frm[""]
                        ELSE StringOrEmpty(NewRows(node, frm)[1].value))
    ELSE Obj([k \in DOMAIN frm |-> parsePrimitive(frm[k])])

\* lines 135-165: the text handed to setJson, or Throw when the try block
\* is left by an exception ("parse" when JSON.parse threw)
\* lines 158-160
Stringified(final, path, replacement) ==
    IF final = Throw THEN [k |-> "threw", at |-> "mutate"]
    ELSE JsonText(Jsonify(IF path # <<>> THEN final ELSE replacement))
\* lines 154-155
Mutated(root, path, replacement) ==
    IF root = Throw THEN [k |-> "threw", at |-> "parse"]
    ELSE Stringified(setValueAtPath(Jsonify(root), path, replacement), path, replacement)
Persist(raw, node, frm) == Mutated(ParseRaw(raw), node.path, Replacement(node, frm))

N1 == Num(<<"1">>)
S42 == Str(<<"4", "2">>)
DocValues ==
    { Obj([k \in {"a", "b"} |-> IF k = "a" THEN N1 ELSE Obj([j \in {"a"} |-> S42])]),
      Obj([k \in {"a", "b"} |-> IF k = "a" THEN S42 ELSE Arr(<<N1, EmptyObj>>, NoProps)]),
      Obj([k \in {"", "a"} |-> IF k = "a" THEN N1 ELSE Null]),
      Arr(<<N1, Str(<<"x">>)>>, NoProps),
      EmptyArr,
      N1 }
DocTexts == {JsonText(v) : v \in DocValues} \cup {InvalidText, EmptyText}
EditTexts == {<<"7">>, <<"x">>}

Init ==
    /\ Mounted
    /\ json \in DocTexts
    /\ hasUpdater \in BOOLEAN
    /\ args = NoCall
    /\ ret = Pending

Ready == args = NoCall /\ ~effectDue

\* the selection store is given a node of the document's graph
SelectNode(n) ==
    /\ Ready
    /\ selectedNode' = n
    /\ effectDue' = TRUE
    /\ lastOp' = "select"
    /\ saveLog' = NoSave
    /\ UNCHANGED <<isEditing, form, json, hasUpdater, count, args, ret>>

\* the selection store's selectedNode is cleared
Deselect ==
    /\ Ready
    /\ selectedNode # NoNode
    /\ selectedNode' = NoNode
    /\ effectDue' = TRUE
    /\ lastOp' = "deselect"
    /\ saveLog' = NoSave
    /\ UNCHANGED <<isEditing, form, json, hasUpdater, count, args, ret>>

\* the document store's text is replaced from outside the modal
DocChange(text) ==
    /\ Ready
    /\ count.docChanges < MaxDocChanges
    /\ text # json
    /\ json' = text
    /\ count' = [count EXCEPT !.docChanges = @ + 1]
    /\ lastOp' = "docChange"
    /\ saveLog' = NoSave
    /\ UNCHANGED <<selectedNode, isEditing, form, effectDue, hasUpdater, args, ret>>

\* line 105, the Edit button of line 181
startEditing ==
    /\ Ready
    /\ ~isEditing /\ selectedNode # NoNode
    /\ isEditing' = TRUE
    /\ effectDue' = TRUE
    /\ lastOp' = "start"
    /\ saveLog' = NoSave
    /\ UNCHANGED <<selectedNode, form, json, hasUpdater, count, args, ret>>

\* line 106, the Cancel button of line 223
cancelEditing ==
    /\ Ready
    /\ isEditing
    /\ isEditing' = FALSE
    /\ effectDue' = TRUE
    /\ lastOp' = "cancel"
    /\ saveLog' = NoSave
    /\ UNCHANGED <<selectedNode, form, json, hasUpdater, count, args, ret>>

\* lines 108-110, called by the inputs of lines 211-217 with a key of the form
handleChange(key, value) ==
    /\ Ready
    /\ isEditing
    /\ key \in DOMAIN form
    /\ count.keystrokes < MaxKeystrokes
    /\ form' = [k \in DOMAIN form \cup {key} |-> IF k = key THEN value ELSE form[k]]
    /\ count' = [count EXCEPT !.keystrokes = @ + 1]
    /\ lastOp' = "change"
    /\ saveLog' = NoSave
    /\ UNCHANGED <<selectedNode, isEditing, json, effectDue, hasUpdater, args, ret>>

\* lines 112-169, the Save button of line 226
handleSave ==
    /\ Ready
    /\ isEditing
    /\ count.saves < MaxSaves
    /\ count' = [count EXCEPT !.saves = @ + 1]
    /\ lastOp' = "save"
    /\ IF selectedNode = NoNode
       THEN /\ saveLog' = [outcome |-> "noNode", raw |-> json, node |-> selectedNode,
                           form |-> form, writes |-> 0]
            /\ UNCHANGED <<selectedNode, isEditing, form, json, effectDue>>
       ELSE \E out \in {Persist(json, selectedNode, form)} :
                /\ selectedNode' = IF hasUpdater
                                   THEN [selectedNode EXCEPT !.text = NewRows(selectedNode, form)]
                                   ELSE selectedNode
                /\ json' = IF out.k = "threw" THEN json ELSE out
                /\ saveLog' = [outcome |-> IF out.k = "threw" THEN out.at ELSE "wrote",
                               raw |-> json, node |-> selectedNode, form |-> form,
                               writes |-> IF out.k = "threw" THEN 0 ELSE 1]
                /\ isEditing' = FALSE
                /\ effectDue' = TRUE
                /\ UNCHANGED form
    /\ UNCHANGED <<hasUpdater, args, ret>>

\* lines 84-103: the effect runs before the next event is handled
RunEffect ==
    /\ args = NoCall
    /\ effectDue
    /\ form' = EffectForm(isEditing, selectedNode)
    /\ effectDue' = FALSE
    /\ UNCHANGED <<selectedNode, isEditing, json, hasUpdater, count, lastOp, saveLog, args, ret>>

Next ==
    \/ \E n \in (IF IsValid(json) THEN NodesOf(json.v) ELSE {}) : SelectNode(n)
    \/ Deselect
    \/ \E text \in DocTexts : DocChange(text)
    \/ startEditing
    \/ cancelEditing
    \/ \E key \in DOMAIN form, value \in EditTexts : handleChange(key, value)
    \/ handleSave
    \/ RunEffect

Spec == Init /\ [][Next]_vars

(***************************************************************************)
(* Properties of the session.                                              *)
(***************************************************************************)
\* the last handler was a handleSave that found a node
SaveRan == saveLog.outcome \in {"parse", "mutate", "wrote"}

IsPrefix(p, q) ==
    /\ Len(p) <= Len(q)
    /\ \A i \in 1..Len(p) : PropName(p[i]) = PropName(q[i])
Unrelated(loc, path) == ~IsPrefix(loc, path) /\ ~IsPrefix(path, loc)

\* every segment of the path applies to a container of its own kind: an
\* index to an array and no further than its end, a key to an object
PathResolves(root, path) ==
    \A i \in 1..Len(path) :
        LET c == GetAt(root, SubSeq(path, 1, i - 1))
        IN  IF IsIndex(path[i]) THEN c.t = "array" /\ path[i].i <= Len(c.e)
            ELSE c.t = "object"

\* the keys the form of a node is to have: the non-empty keys of the rows
\* that are neither objects nor arrays, or "" alone for a node of one row
\* without a key
EditableKeys(node) ==
    IF Len(node.text) = 1 /\ node.text[1].key \in {NoKey, AKey("")} THEN {""}
    ELSE {node.text[i].key.k :
             i \in {j \in 1..Len(node.text) :
                       /\ node.text[j].type \notin {"object", "array"}
                       /\ node.text[j].key # NoKey
                       /\ node.text[j].key.k # ""}}
\* the text a row shows
RowText(r) == IF r.value \in {Null, Undef} THEN <<>> ELSE ToText(r.value)
RowTexts(node) == [i \in 1..Len(node.text) |-> RowText(node.text[i])]
FormShowsNode(frm, node) ==
    /\ DOMAIN frm = EditableKeys(node)
    /\ \A i \in 1..Len(node.text) :
          LET r == node.text[i]
          IN  /\ (r.key # NoKey /\ r.key.k \in DOMAIN frm /\ r.key.k # "")
                    => frm[r.key.k] = RowText(r)
              /\ (Len(node.text) = 1 /\ "" \in DOMAIN frm) => frm[""] = RowText(r)

\* C3: a save with every form value equal to the row value it was populated
\* from, on a valid document and a node of that document, leaves the document
\* store holding text of the same parsed value.
C3_NoOpSaveKeepsDocument ==
    ( /\ SaveRan
      /\ IsValid(saveLog.raw)
      /\ saveLog.node \in NodesOf(saveLog.raw.v)
      /\ FormShowsNode(saveLog.form, saveLog.node) )
    => (IsValid(json) /\ json.v = saveLog.raw.v)

SelectionChanged == lastOp \in {"select", "deselect"}
SelectionStep == ~effectDue /\ effectDue' /\ lastOp' \in {"select", "deselect"}

\* C5 as claimed: once the selection has changed (and the effect has run), the
\* form is empty and the session is in view mode.
C5_SelectionChangeExitsEditing ==
    (SelectionChanged /\ ~effectDue) => (form = NoForm /\ ~isEditing)

\* C5 amended: a change of the selection leaves the mode as it is; once the
\* effect has run the form is empty in view mode or with nothing selected, and
\* otherwise shows the rows of the node now selected.
C5_SelectionChangeRepopulates ==
    /\ [][SelectionStep => isEditing' = isEditing]_vars
    /\ []((SelectionChanged /\ ~effectDue) =>
             IF ~isEditing \/ selectedNode = NoNode THEN form = NoForm
             ELSE FormShowsNode(form, selectedNode))

C5_Witness ==
    /\ lastOp = "select"
    /\ ~effectDue
    /\ isEditing
    /\ count.keystrokes > 0
    /\ form # NoForm
    /\ FormShowsNode(form, selectedNode)

\* C6: every save in edit mode ends in view mode with the form discarded.
C6_SaveEndsInViewing ==
    lastOp = "save" => (~isEditing /\ (~effectDue => form = NoForm))

\* C7: a save that reads text that is not JSON writes nothing to the document
\* store and runs to its end (line 168).
C7_ParseFailureLeavesDocument ==
    (SaveRan /\ saveLog.raw = InvalidText) =>
        (json = InvalidText /\ saveLog.writes = 0 /\ ~isEditing)

C7_Witness ==
    /\ saveLog.outcome = "parse"
    /\ saveLog.form # PopulateForm(saveLog.node)
    /\ ~effectDue

\* C8 as claimed: in edit mode with the form populated, the keys of the form
\* are the keys of the node's rows that are neither objects nor arrays, or ""
\* alone when the node is one keyless row.
C8_FormKeysAreScalarRowKeys ==
    (isEditing /\ ~effectDue /\ selectedNode # NoNode) =>
        DOMAIN form =
            IF Len(selectedNode.text) = 1 /\ selectedNode.text[1].key = NoKey THEN {""}
            ELSE {selectedNode.text[i].key.k :
                     i \in {j \in 1..Len(selectedNode.text) :
                               selectedNode.text[j].type \notin {"object", "array"}}}

\* C8 amended: the keys of the form are the non-empty keys of those rows, or
\* "" alone when the node is one row whose key is absent or empty; keystrokes
\* change no key.
C8_FormKeysAreEditableKeys ==
    (isEditing /\ ~effectDue /\ selectedNode # NoNode) =>
        DOMAIN form = EditableKeys(selectedNode)

C8_Witness ==
    /\ isEditing /\ ~effectDue /\ selectedNode # NoNode
    /\ lastOp = "change"
    /\ \E i \in 1..Len(selectedNode.text) : IsContainerRow(selectedNode.text[i])
    /\ form # NoForm

\* C10: a save that is abandoned leaves the rows of the selection store as
\* they were.
C10_AbandonedSaveLeavesSelection ==
    saveLog.outcome \in {"parse", "mutate"} =>
        (selectedNode # NoNode /\ RowTexts(selectedNode) = RowTexts(saveLog.node))

(***************************************************************************)
(* Properties of parsePrimitive.                                           *)
(***************************************************************************)
IsJsonScalar(v) ==
    \/ v.t \in {"null", "boolean", "string"}
    \/ v.t = "number" /\ IsFiniteNum(v)

\* C9: parsePrimitive applies its rules in order, the number rule exactly
\* when the number renders back to the input, and its result is a JSON scalar.
C9_CoerceRulesAndJsonScalar ==
    (args.fn = "parsePrimitive" /\ ret # Pending) =>
        /\ ret = (CASE args.v = T_true -> Bool(TRUE)
                    [] args.v = T_false -> Bool(FALSE)
                    [] args.v = T_null -> Null
                    [] args.v = <<>> -> Str(<<>>)
                    [] OTHER -> IF NumberToString(Number(args.v)) = args.v /\ args.v # T_NaN
                                THEN Num(args.v) ELSE Str(args.v))
        /\ IsJsonScalar(ret)

====
